---- MODULE Spec2Model ----
(***************************************************************************)
(* One StickerWindow of StickerBoard_ver2.py as a state machine: its       *)
(* transform state (window geometry, base size, angle), the resize         *)
(* session, the gesture flags, the overlay layout, the window mask and the *)
(* deferred callbacks.  Every Qt event handler of the class is one action. *)
(*                                                                         *)
(* Numbers.  Pixel coordinates are integers.  Image-space vectors are      *)
(* half-integers and are carried doubled (V2 = 2*v).  rotation_angle is a  *)
(* float of degrees in the code; the rotate gesture adds dx * 0.5, so the  *)
(* model carries it in half-degrees.  The angles of the model are the      *)
(* multiples of 90 degrees, where cos and sin are taken as exactly         *)
(* -1, 0, 1; the smoothed scale is an exact fraction <<num, den>>.         *)
(* int(round(x)) is Python's round-half-to-even, int(x) truncates          *)
(* towards zero, // floors.                                                *)
(*                                                                         *)
(* Slots of one gesture.  drag_start and win_start are read only while     *)
(* dragging is set, rotation_start_x and start_angle only while rotating   *)
(* is set, _start_base_w/_start_base_h only while resizing is set, and the *)
(* handler that sets the flag writes them first.  The code leaves the old  *)
(* value in the slot when the flag is cleared; the model shows the slot as *)
(* unset from then on, since no handler can read the old value.            *)
(***************************************************************************)
EXTENDS Integers, Sequences, FiniteSets, TLC

\* ---------------------------------------------------------------- bounds
\* the window's top-left corner stays within [-MaxCoord, MaxCoord]
MaxCoord == 160
\* a resize preview never grows a side beyond MaxSide
MaxSide == 84
\* resize-move samples in one run (each one multiplies the EMA denominator by 5)
MaxMoves == 2
\* |rotation_angle| <= MaxTurns * 90 degrees
MaxTurns == 4
\* commands of the user in one run: primary presses, rotate-button presses and
\* menu choices
MaxCmds == 2
\* entries in the "stickers" list of a persisted document
MaxDoc == 3
\* stickers created in one run of the application
MaxStickers == 3

\* ------------------------------------------------------ program constants
BTN_MARGIN == 6
CLOSE_BTN_W == 18
CLOSE_BTN_H == 18
ROT_BTN_W == 18
ROT_BTN_H == 18
ROT_EXTRA_GAP == 12
MIN_SIDE == 64
\* self.resize_margin = 18
RESIZE_MARGIN == 18
\* max(32, int(st.get("w", ...)))
MIN_STATE_SIDE == 32
\* need_apply: abs(...) >= 2
GEOM_THRESHOLD == 2
\* QSize(1920, 1080) fallback available size, and the 0.35 / 720 / 320 limits
SCREEN_W == 1920
SCREEN_H == 1080
MAX_INIT_SIDE == 720
SMALL_IMAGE_SIDE == 320

None == <<>>

\* ------------------------------------------------------------ arithmetic
Abs(n) == IF n < 0 THEN -n ELSE n
Min2(a, b) == IF a <= b THEN a ELSE b
Max2(a, b) == IF a >= b THEN a ELSE b

\* int(n / d): truncation towards zero (Python's int() of a float, C++ integer division)
TruncDiv(n, d) == IF n >= 0 THEN n \div d ELSE -((-n) \div d)
\* int(round(n / d)) for d > 0: Python 3 rounds halves to the even neighbour
RoundHalfEven(n, d) ==
    LET q == n \div d
        r == n % d
    IN  IF 2 * r < d THEN q
        ELSE IF 2 * r > d THEN q + 1
        ELSE IF q % 2 = 0 THEN q ELSE q + 1

RECURSIVE GCD(_, _)
GCD(a, b) == IF b = 0 THEN a ELSE GCD(b, a % b)

\* the element of a one-element set: {F(x) : x \in {e}} computes e once for all
\* its uses in F
TheOnly(S) == CHOOSE r \in S : TRUE

\* the fraction n/d (d > 0) in lowest terms
Frac(n, d) == LET g == GCD(Abs(n), d) IN <<n \div g, d \div g>>
\* a/b <= c/d for positive denominators, by cross-multiplication of the
\* integer parts first so that the products stay small
FracLeq(a, b) ==
    LET qa == a[1] \div a[2]
        qb == b[1] \div b[2]
    IN  IF qa # qb THEN qa < qb
        ELSE (a[1] % a[2]) * b[2] <= (b[1] % b[2]) * a[2]
FracMax(a, b) == IF FracLeq(a, b) THEN b ELSE a
FracMin(a, b) == IF FracLeq(a, b) THEN a ELSE b

\* int(round(k * f)) for an integer k >= 0 and a fraction f >= 0
RoundMulFrac(k, f) ==
    LET q == f[1] \div f[2]
        r == f[1] % f[2]
    IN  k * q + RoundHalfEven(k * r, f[2])
\* int(k * f): truncation, same arguments
TruncMulFrac(k, f) ==
    LET q == f[1] \div f[2]
        r == f[1] % f[2]
    IN  k * q + ((k * r) \div f[2])

\* ceil(sqrt(n)) for n >= 0: the least k with k * k >= n, searched upwards from
\* a multiple of 16 whose square is below n
RECURSIVE SqrtBelow(_, _)
SqrtBelow(n, k) == IF (k + 16) * (k + 16) < n THEN SqrtBelow(n, k + 16) ELSE k
RECURSIVE CeilSqrtFrom(_, _)
CeilSqrtFrom(n, k) == IF k * k >= n THEN k ELSE CeilSqrtFrom(n, k + 1)
CeilSqrt(n) == CeilSqrtFrom(n, SqrtBelow(n, 0))

\* ------------------------------------------------------------- geometry
\* StickerWindow._max_square_side
MaxSquareSide(w, h) == CeilSqrt(w * w + h * h) + 2

\* cos and sin of an angle given in half-degrees (a multiple of 90 degrees)
Quarter(angle) == (angle \div 180) % 4
Cos(angle) == <<1, 0, -1, 0>>[Quarter(angle) + 1]
Sin(angle) == <<0, 1, 0, -1>>[Quarter(angle) + 1]

\* QRect(0, 0, w, h).center(): ((0 + w - 1) / 2, (0 + h - 1) / 2), integer division
RectCenter(g) == <<TruncDiv(g[3] - 1, 2), TruncDiv(g[4] - 1, 2)>>
\* QRect(x, y, w, h).center() of the frame geometry (frameless window: the geometry)
FrameCenter(g) == <<TruncDiv(2 * g[1] + g[3] - 1, 2), TruncDiv(2 * g[2] + g[4] - 1, 2)>>

\* StickerWindow._map_image_center_to_widget, the image vector given doubled
MapImageCenterToWidget(vx2, vy2, angle, g) ==
    LET ca == Cos(angle)
        sa == Sin(angle)
        rx2 == vx2 * ca - vy2 * sa
        ry2 == vx2 * sa + vy2 * ca
        c == RectCenter(g)
    IN  <<RoundHalfEven(2 * c[1] + rx2, 2), RoundHalfEven(2 * c[2] + ry2, 2)>>

\* QWidget.mapToGlobal / mapFromGlobal of a top-level window
MapToGlobal(p, g) == <<p[1] + g[1], p[2] + g[2]>>
MapFromGlobal(p, g) == <<p[1] - g[1], p[2] - g[2]>>

\* StickerWindow._image_top_left_global
ImageTopLeftGlobal(w, h, angle, g) ==
    MapToGlobal(MapImageCenterToWidget(-w, -h, angle, g), g)

\* StickerWindow._center_from_anchor
CenterFromAnchor(anchor, w, h, angle) ==
    LET ca == Cos(angle)
        sa == Sin(angle)
        rx2 == (-w) * ca - (-h) * sa
        ry2 == (-w) * sa + (-h) * ca
    IN  <<RoundHalfEven(2 * anchor[1] - rx2, 2), RoundHalfEven(2 * anchor[2] - ry2, 2)>>

\* the square of side `side` centred on a global point: int(round(c - side / 2.0))
SquareByCenter(c, side) ==
    <<RoundHalfEven(2 * c[1] - side, 2), RoundHalfEven(2 * c[2] - side, 2), side, side>>

\* StickerWindow._is_pos_in_image: |vxi| <= w/2 + 0.5 and |vyi| <= h/2 + 0.5
IsPosInImage(pos, w, h, angle, g) ==
    LET c == RectCenter(g)
        vxw == pos[1] - c[1]
        vyw == pos[2] - c[2]
        ca == Cos(-angle)
        sa == Sin(-angle)
        vxi == vxw * ca - vyw * sa
        vyi == vxw * sa + vyw * ca
    IN  /\ w > 0 /\ h > 0
        /\ 2 * Abs(vxi) <= w + 1
        /\ 2 * Abs(vyi) <= h + 1

\* StickerWindow._pt_in_triangle: barycentric u, v, w >= 0, no hit when denom = 0
PtInTriangle(p, a, b, c) ==
    LET denom == (b[2] - c[2]) * (a[1] - c[1]) + (c[1] - b[1]) * (a[2] - c[2])
        un == (b[2] - c[2]) * (p[1] - c[1]) + (c[1] - b[1]) * (p[2] - c[2])
        vn == (c[2] - a[2]) * (p[1] - c[1]) + (a[1] - c[1]) * (p[2] - c[2])
        wn == denom - un - vn
        sg == IF denom > 0 THEN 1 ELSE -1
    IN  /\ denom # 0
        /\ sg * un >= 0
        /\ sg * vn >= 0
        /\ sg * wn >= 0

\* StickerWindow._current_image_w_h: a tuple is truthy, None is not
CurrentImageWH(pending, bw, bh) == IF pending # None THEN pending ELSE <<bw, bh>>

\* bool(QPoint): PySide6 answers not isNull(), so QPoint(0, 0) is falsy like None
PointIsSet(p) == p # None /\ p # <<0, 0>>

\* StickerWindow._place_overlay_controls: close button, rotate button, handle triangle
PlaceOverlayControls(w, h, angle, g) ==
    LET pad == Max2(BTN_MARGIN, 2)
        p_close == MapImageCenterToWidget(w - 2 * pad - CLOSE_BTN_W,
                                          -h + 2 * pad + CLOSE_BTN_H, angle, g)
        rotate_gap2 == 2 * ROT_EXTRA_GAP + CLOSE_BTN_W + ROT_BTN_W
        p_rot == MapImageCenterToWidget(w - 2 * pad - rotate_gap2,
                                        -h + 2 * pad + ROT_BTN_H, angle, g)
        s == RESIZE_MARGIN
    IN  [close |-> <<p_close[1] - (CLOSE_BTN_W \div 2), p_close[2] - (CLOSE_BTN_H \div 2)>>,
         rotate |-> <<p_rot[1] - (ROT_BTN_W \div 2), p_rot[2] - (ROT_BTN_H \div 2)>>,
         tri |-> <<MapImageCenterToWidget(w, h, angle, g),
                   MapImageCenterToWidget(w - 2 * s, h, angle, g),
                   MapImageCenterToWidget(w, h - 2 * s, angle, g)>>]

\* StickerWindow._apply_rotated_rect_mask: the corners are built as
\* QPoint(-hw, -hh) from the floats w * 0.5, h * 0.5, which the binding
\* truncates to int; each is rotated, translated and rounded
RotatedRectMask(w, h, angle, g) ==
    LET hw == w \div 2
        hh == h \div 2
        ca == Cos(angle)
        sa == Sin(angle)
        c == RectCenter(g)
        P(px, py) == <<px * ca - py * sa + c[1], px * sa + py * ca + c[2]>>
    IN  <<P(-hw, -hh), P(hw, -hh), P(hw, hh), P(-hw, hh)>>

\* StickerWindow.__init__, initial size from the natural image size
InitialSize(nw, nh) ==
    LET max_w == TruncDiv(Min2(SCREEN_W * 35, MAX_INIT_SIDE * 100), 100)
        max_h == TruncDiv(Min2(SCREEN_H * 35, MAX_INIT_SIDE * 100), 100)
        fit_scale == FracMin(FracMin(Frac(max_w, Max2(1, nw)), Frac(max_h, Max2(1, nh))),
                             <<1, 1>>)
        base_scale == IF nw <= SMALL_IMAGE_SIDE \/ nh <= SMALL_IMAGE_SIDE
                      THEN <<1, 1>> ELSE <<3, 5>>
        s == FracMin(fit_scale, base_scale)
        w0 == Max2(1, TruncMulFrac(nw, s))
        h0 == Max2(1, TruncMulFrac(nh, s))
        short == Min2(w0, h0)
    IN  IF short < MIN_SIDE
        THEN <<RoundHalfEven(w0 * MIN_SIDE, short), RoundHalfEven(h0 * MIN_SIDE, short)>>
        ELSE <<w0, h0>>

\* ---------------------------------------------------------------- state
VARIABLES
    shown,                  \* the window has been shown
    locked, topmost,
    dragging, resizing, rotating,
    grab,                   \* grabMouse() without a matching releaseMouse()
    geom,                   \* window geometry <<x, y, width, height>>
    base_w, base_h,
    pm_base,                \* the size the bitmap was last loaded at
    rotation_angle,         \* half-degrees
    rotation_start_x, start_angle,
    drag_start, win_start,
    resizing_pending_size, start_base_w, start_base_h,
    resize_anchor_pt, scale_ema, last_applied_geom,
    nmoves,                 \* resize-move samples taken so far
    resize_tri_pts, btn_close_pos, btn_rotate_pos,
    btn_visible, show_resize_handle,
    mask,
    mask_pending,           \* the flag _mask_pending
    saved_center, pos_fix_applied,
    posfix_queued,          \* the queued re-position of showEvent: None or its target
    emitted,                \* stateChanged emissions of the last handler
    last,                   \* the handler that ran last
    ncmds,                  \* commands of the user so far
    event_gp,               \* global position of the primary press or the move handled last
    mask_queued,            \* zero-delay _do callbacks waiting in the event queue
    coalesced,              \* the last handler called the throttle with the flag already set
    toolbar                 \* StickerToolbar.restore_from_save: its document, loop and stickers

stickerVars == <<shown, locked, topmost, dragging, resizing, rotating, grab, geom,
          base_w, base_h, pm_base, rotation_angle, rotation_start_x, start_angle,
          drag_start, win_start, resizing_pending_size, start_base_w, start_base_h,
          resize_anchor_pt, scale_ema, last_applied_geom, nmoves,
          resize_tri_pts, btn_close_pos, btn_rotate_pos, btn_visible,
          show_resize_handle, mask, mask_pending, saved_center, pos_fix_applied,
          posfix_queued, emitted, last, ncmds, event_gp, mask_queued, coalesced>>
vars == <<stickerVars, toolbar>>

\* ---------------------------------------------------------------- inputs
\* natural sizes of the image files a sticker is created from
NaturalSizes == {<<30, 30>>}
\* where pick_images puts a new sticker (toolbar at 80,80, height 60)
StartPositions == {<<80, 150>>}

InBox(g) == Abs(g[1]) <= MaxCoord /\ Abs(g[2]) <= MaxCoord

\* pointer positions on a sticker showing a w x h image, as doubled image
\* vectors.  A press lands on the image centre, inside the resize handle, or
\* one pixel beyond the handle corner; a resize move goes to the centre, two
\* pixels inside the corner, one pixel or eight pixels beyond it, or to five
\* times the corner's distance from the centre; QCursor.pos()
\* and the other events are on the centre or off the image
PressPoints2(w, h) == {<<0, 0>>, <<w - 8, h - 8>>, <<w + 2, h + 2>>}
ResizePoints2(w, h) ==
    {<<0, 0>>, <<w - 4, h - 4>>, <<w + 2, h + 2>>, <<w + 16, h + 16>>, <<5 * w, 5 * h>>}
CursorPoints2(w, h) == {<<0, 0>>, <<w + 16, h + 16>>}
ImageCandidates(pts, angle, g) ==
    {MapToGlobal(MapImageCenterToWidget(v[1], v[2], angle, g), g) : v \in pts}

\* the pointer during a drag: the press point, or displaced by a fixed vector
DragDeltas == {<<0, 0>>, <<70, -20>>}
\* the pointer during a rotation: a quarter turn left of the start column, on
\* it, a quarter turn or a full turn right of it; on the centre row or 40
\* pixels below it
RotateCandidates(x0, g) ==
    {<<x0 + 180 * k, g[2] + RectCenter(g)[2] + dy>> : k \in {-1, 0, 1, 4}, dy \in {0, 40}}

\* QCursor.pos() as _update_overlay_visibility() reads it, and the position of
\* a release, enter or hover event
Cursors ==
    LET wh == CurrentImageWH(resizing_pending_size, base_w, base_h)
    IN  ImageCandidates(CursorPoints2(wh[1], wh[2]), rotation_angle, geom)

\* the position of a mousePressEvent
PressCandidates ==
    LET wh == CurrentImageWH(resizing_pending_size, base_w, base_h)
    IN  ImageCandidates(PressPoints2(wh[1], wh[2]), rotation_angle, geom)
\* the primary button is pressed once: while the drag or resize that its press
\* began is in progress no second press of it arrives.  (A rotation begins with
\* the rotate button's pressed signal, which the keyboard raises as well, so
\* rotations and presses interleave freely.)
LeftPressCandidates == IF dragging \/ resizing THEN {} ELSE PressCandidates

\* the position of a mouseMoveEvent, by the gesture in progress
MoveCandidates ==
    LET wh == CurrentImageWH(resizing_pending_size, base_w, base_h)
    IN  (IF dragging
         THEN {<<drag_start[1] + d[1], drag_start[2] + d[2]>> : d \in DragDeltas}
         ELSE {})
        \cup (IF rotating THEN RotateCandidates(rotation_start_x, geom) ELSE {})
        \cup (IF resizing /\ ~dragging /\ ~rotating
              THEN ImageCandidates(ResizePoints2(wh[1], wh[2]), rotation_angle, geom)
              ELSE {})
        \cup (IF ~resizing /\ ~dragging /\ ~rotating THEN Cursors ELSE {})

\* ------------------------------------------------------------ construction
\* StickerWindow.__init__ as create_sticker runs it: from pick_images
\* (start_pos given, shown at once, topmost) or from restore_from_save
\* (no start_pos, show_now = False, initial_topmost = False)
StickerInit ==
    \E nat \in NaturalSizes, picked \in BOOLEAN, sp \in StartPositions :
      LET sz == InitialSize(nat[1], nat[2])
          side == MaxSquareSide(sz[1], sz[2])
          g == IF picked THEN <<sp[1], sp[2], side, side>> ELSE <<0, 0, side, side>>
          ov == PlaceOverlayControls(sz[1], sz[2], 0, g)
      IN  \E cur \in ImageCandidates(CursorPoints2(sz[1], sz[2]), 0, g) :
            LET inside == IsPosInImage(MapFromGlobal(cur, g), sz[1], sz[2], 0, g)
            IN  /\ shown = picked
                /\ topmost = picked
                /\ locked = FALSE
                /\ dragging = FALSE /\ resizing = FALSE /\ rotating = FALSE
                /\ grab = FALSE
                /\ geom = g
                /\ base_w = sz[1] /\ base_h = sz[2]
                /\ pm_base = sz
                /\ rotation_angle = 0
                \* rotation_start_x and start_angle are not set by __init__ and are
                \* written by _begin_rotate_by_button before anything reads them
                /\ rotation_start_x = 0 /\ start_angle = 0
                /\ drag_start = None /\ win_start = None
                /\ resizing_pending_size = None
                \* None, which `or` treats like 0
                /\ start_base_w = 0 /\ start_base_h = 0
                /\ resize_anchor_pt = None
                /\ scale_ema = <<1, 1>>
                /\ last_applied_geom = None
                /\ nmoves = 0
                /\ resize_tri_pts = ov.tri
                /\ btn_close_pos = ov.close
                /\ btn_rotate_pos = ov.rotate
                /\ btn_visible = inside
                /\ show_resize_handle = inside
                /\ mask = RotatedRectMask(sz[1], sz[2], 0, g)
                \* show() inside __init__ delivers the first resizeEvent, which
                \* schedules the throttled mask
                /\ mask_pending = picked
                /\ saved_center = None
                /\ pos_fix_applied = FALSE
                /\ posfix_queued = None
                /\ emitted = 0
                /\ last = "init"
                /\ ncmds = 0
                /\ event_gp = None
                /\ mask_queued = (IF picked THEN 1 ELSE 0)
                /\ coalesced = FALSE

\* a run of the sticker: the toolbar has nothing to restore
ToolbarIdle == [phase |-> "idle"]
Init == StickerInit /\ toolbar = ToolbarIdle

\* the handler reads no pointer position, calls no throttle
NoPointer == event_gp' = None
NoThrottle == coalesced' = FALSE /\ UNCHANGED mask_queued
Quiet == NoPointer /\ NoThrottle /\ UNCHANGED toolbar

\* StickerWindow._apply_rotated_rect_mask_throttled: the flag, the queue and
\* whether the call was dropped, after one call
ThrottledNoCheck(pending, queued) ==
    [pending |-> TRUE, queued |-> queued + 1, coalesced |-> pending]
Throttled(pending, queued) ==
    IF pending
    THEN [pending |-> TRUE, queued |-> queued, coalesced |-> TRUE]
    ELSE [pending |-> TRUE, queued |-> queued + 1, coalesced |-> FALSE]

\* one more command of the user, none, within the bound
Command == ncmds < MaxCmds /\ ncmds' = ncmds + 1
NoCommand == ncmds' = ncmds

\* ----------------------------------------------------------------- restore
\* the persisted records tried: an undersized record with cx/cy, a locked
\* legacy record (x, y only) turned by 90 degrees, two records centred on the
\* origin, the second with both sides above MIN_SIDE
Record(w, h, angle, top, lock, has_center, cx, cy, x, y) ==
    [w |-> w, h |-> h, angle |-> angle, topmost |-> top, locked |-> lock,
     has_center |-> has_center, cx |-> cx, cy |-> cy, x |-> x, y |-> y]
StickerRecords ==
    {Record(10, 32, 0, TRUE, FALSE, TRUE, 100, 100, 54, 54),
     Record(64, 70, 180, FALSE, TRUE, FALSE, 0, 0, 100, 100),
     Record(70, 64, 0, TRUE, FALSE, TRUE, 0, 0, 7, 7),
     Record(65, 66, 0, TRUE, FALSE, TRUE, 0, 0, 7, 7)}

\* max(32, int(st.get("w", ...)))
ClampDimNone(v) == v
ClampDim(v) == Max2(MIN_STATE_SIDE, v)

\* the centre apply_state restores (source lines 781-786): cx, cy when the
\* record has both, else the legacy x, y plus required_side // 2
RestoredCenterFromCorner(st, required_side) ==
    <<st.x + (required_side \div 2), st.y + (required_side \div 2)>>
RestoredCenter(st, required_side) ==
    IF st.has_center
    THEN <<st.cx, st.cy>>
    ELSE <<st.x + (required_side \div 2), st.y + (required_side \div 2)>>

\* what apply_state(st) and the show() after it leave in the sticker: the base
\* size, the flags, _saved_center, the geometry set by setGeometry (g1) and
\* the geometry after showEvent has moved the window (geom)
AppliedState(st) ==
    LET bw == ClampDim(st.w)
        bh == ClampDim(st.h)
        required_side == MaxSquareSide(bw, bh)
        c == RestoredCenter(st, required_side)
        g1 == <<TruncDiv(2 * c[1] - required_side, 2), TruncDiv(2 * c[2] - required_side, 2),
                required_side, required_side>>
        \* showEvent: if self._saved_center and not self._pos_fix_applied
        fix == PointIsSet(c)
        target == <<TruncDiv(2 * c[1] - g1[3], 2), TruncDiv(2 * c[2] - g1[3], 2)>>
    IN  [base_w |-> bw, base_h |-> bh, angle |-> st.angle,
         topmost |-> st.topmost, locked |-> st.locked,
         center |-> c, g1 |-> g1, fix |-> fix, target |-> target,
         geom |-> IF fix THEN <<target[1], target[2], g1[3], g1[4]>> ELSE g1]

\* StickerWindow.to_state: cx, cy are the centre of frameGeometry()
ToStateCornerAsCenter ==
    Record(base_w, base_h, rotation_angle, topmost, locked, TRUE,
           geom[1], geom[2], geom[1], geom[2])
ToState ==
    Record(base_w, base_h, rotation_angle, topmost, locked, TRUE,
           FrameCenter(geom)[1], FrameCenter(geom)[2], geom[1], geom[2])

\* StickerWindow.apply_state followed by show(), as restore_from_save calls them
\* on the sticker it has just created hidden (source lines 975-979); show()
\* delivers the pending resizeEvent and showEvent
ApplyState(st, cur) ==
    LET rs == AppliedState(st)
        bw == rs.base_w
        bh == rs.base_h
        c == rs.center
        g1 == rs.g1
        wh == CurrentImageWH(resizing_pending_size, bw, bh)
        ov == PlaceOverlayControls(wh[1], wh[2], st.angle, g1)
        inside == IsPosInImage(MapFromGlobal(cur, g1), wh[1], wh[2], st.angle, g1)
        fix == rs.fix
        target == rs.target
        g2 == rs.geom
    IN  /\ ~shown
        /\ InBox(g2)
        /\ NoCommand
        /\ base_w' = bw /\ base_h' = bh
        /\ pm_base' = <<bw, bh>>
        /\ rotation_angle' = st.angle
        /\ topmost' = st.topmost
        /\ locked' = st.locked
        /\ geom' = g2
        /\ saved_center' = c
        /\ pos_fix_applied' = fix
        /\ posfix_queued' = IF fix THEN target ELSE None
        /\ resize_tri_pts' = ov.tri
        /\ btn_close_pos' = ov.close
        /\ btn_rotate_pos' = ov.rotate
        /\ mask' = RotatedRectMask(wh[1], wh[2], st.angle, g1)
        /\ btn_visible' = inside
        /\ show_resize_handle' = inside
        /\ LET th == Throttled(mask_pending, mask_queued)
           IN  /\ mask_pending' = th.pending
               /\ mask_queued' = th.queued
               /\ coalesced' = th.coalesced
        /\ shown' = TRUE
        /\ emitted' = 0
        /\ last' = "apply_state"
        /\ NoPointer /\ UNCHANGED toolbar
        /\ UNCHANGED <<dragging, resizing, rotating, grab, rotation_start_x, start_angle,
                       drag_start, win_start, resizing_pending_size, start_base_w,
                       start_base_h, resize_anchor_pt, scale_ema, last_applied_geom, nmoves>>

\* ------------------------------------------------------ deferred callbacks
\* _do of _apply_rotated_rect_mask_throttled, run by QTimer.singleShot(0, _do)
MaskCallback(cur) ==
    LET wh == CurrentImageWH(resizing_pending_size, base_w, base_h)
        inside == IsPosInImage(MapFromGlobal(cur, geom), wh[1], wh[2], rotation_angle, geom)
    IN  /\ shown
        /\ mask_queued > 0
        /\ NoCommand
        /\ mask_queued' = mask_queued - 1
        /\ mask_pending' = FALSE
        /\ coalesced' = FALSE
        /\ NoPointer /\ UNCHANGED toolbar
        /\ mask' = RotatedRectMask(wh[1], wh[2], rotation_angle, geom)
        /\ btn_visible' = inside
        /\ show_resize_handle' = inside
        /\ emitted' = 0
        /\ last' = "callback"
        /\ UNCHANGED <<shown, locked, topmost, dragging, resizing, rotating, grab, geom,
                       base_w, base_h, pm_base, rotation_angle, rotation_start_x,
                       start_angle, drag_start, win_start, resizing_pending_size,
                       start_base_w, start_base_h, resize_anchor_pt, scale_ema,
                       last_applied_geom, nmoves, resize_tri_pts, btn_close_pos,
                       btn_rotate_pos, saved_center, pos_fix_applied, posfix_queued>>

\* the lambda queued by showEvent: self.move(int(c.x() - side/2), int(c.y() - side/2))
PosFixCallback ==
    /\ shown
    /\ posfix_queued # None
    /\ NoCommand
    /\ geom' = <<posfix_queued[1], posfix_queued[2], geom[3], geom[4]>>
    /\ InBox(geom')
    /\ posfix_queued' = None
    /\ emitted' = 0
    /\ last' = "callback"
    /\ Quiet
    /\ UNCHANGED <<shown, locked, topmost, dragging, resizing, rotating, grab,
                   base_w, base_h, pm_base, rotation_angle, rotation_start_x,
                   start_angle, drag_start, win_start, resizing_pending_size,
                   start_base_w, start_base_h, resize_anchor_pt, scale_ema,
                   last_applied_geom, nmoves, resize_tri_pts, btn_close_pos,
                   btn_rotate_pos, btn_visible, show_resize_handle, mask, mask_pending,
                   saved_center, pos_fix_applied>>

\* --------------------------------------------------------------- hit test
\* StickerWindow._hit_test_resize
HitTestResize(pos) ==
    IF locked \/ resize_tri_pts = None \/ ~show_resize_handle
    THEN FALSE
    ELSE PtInTriangle(pos, resize_tri_pts[1], resize_tri_pts[2], resize_tri_pts[3])

\* ------------------------------------------------------------------ press
\* the gesture a primary press begins (source lines 513 and 523)
PressGestureDragOnly(hit) == "drag"
PressGesture(hit) == IF hit THEN "resize" ELSE "drag"

\* StickerWindow.mousePressEvent
MousePress(button, gp) ==
    LET pos == MapFromGlobal(gp, geom)
        cur == CurrentImageWH(resizing_pending_size, base_w, base_h)
        inside == IsPosInImage(pos, cur[1], cur[2], rotation_angle, geom)
        hit == HitTestResize(pos)
    IN  /\ shown
        /\ IF button = "left" THEN Command ELSE NoCommand
        /\ emitted' = 0
        /\ last' = IF button = "left" THEN "press_left" ELSE "other"
        /\ event_gp' = (IF button = "left" THEN gp ELSE None)
        /\ NoThrottle /\ UNCHANGED toolbar
        /\ UNCHANGED <<shown, locked, topmost, rotating, grab, geom, base_w, base_h, pm_base,
                       rotation_angle, rotation_start_x, start_angle,
                       resize_tri_pts, btn_close_pos, btn_rotate_pos, mask, mask_pending,
                       saved_center, pos_fix_applied, posfix_queued>>
        /\ IF button = "left" /\ locked
           THEN \* return before the overlay visibility is refreshed
                UNCHANGED <<dragging, resizing, drag_start, win_start,
                            resizing_pending_size, start_base_w, start_base_h,
                            resize_anchor_pt, scale_ema, last_applied_geom, nmoves,
                            btn_visible, show_resize_handle>>
           ELSE /\ btn_visible' = inside
                /\ show_resize_handle' = inside
                /\ IF button = "left" /\ PressGesture(hit) = "resize"
                   THEN /\ resizing' = TRUE
                        /\ start_base_w' = cur[1]
                        /\ start_base_h' = cur[2]
                        /\ resizing_pending_size' = cur
                        /\ resize_anchor_pt' =
                               ImageTopLeftGlobal(cur[1], cur[2], rotation_angle, geom)
                        /\ scale_ema' = <<1, 1>>
                        /\ last_applied_geom' = geom
                        /\ UNCHANGED <<dragging, drag_start, win_start, nmoves>>
                   ELSE IF button = "left"
                   THEN /\ dragging' = TRUE
                        /\ drag_start' = gp
                        /\ win_start' = <<geom[1], geom[2]>>
                        /\ UNCHANGED <<resizing, resizing_pending_size, start_base_w,
                                       start_base_h, resize_anchor_pt, scale_ema,
                                       last_applied_geom, nmoves>>
                   ELSE \* right button: the context menu pops up
                        UNCHANGED <<dragging, resizing, drag_start, win_start,
                                    resizing_pending_size, start_base_w, start_base_h,
                                    resize_anchor_pt, scale_ema, last_applied_geom, nmoves>>

\* StickerWindow._begin_rotate_by_button, the rotate button's pressed signal;
\* QCursor.pos() is on the button
BeginRotateNoLockCheck(cur) ==
    /\ shown
    /\ Command
    /\ rotating' = TRUE
    /\ rotation_start_x' = cur[1]
    /\ start_angle' = rotation_angle
    /\ grab' = TRUE
    /\ emitted' = 0
    /\ last' = "begin_rotate"
    /\ Quiet
    /\ UNCHANGED <<shown, locked, topmost, dragging, resizing, geom, base_w, base_h,
                   pm_base, rotation_angle, drag_start, win_start, resizing_pending_size,
                   start_base_w, start_base_h, resize_anchor_pt, scale_ema,
                   last_applied_geom, nmoves, resize_tri_pts, btn_close_pos,
                   btn_rotate_pos, btn_visible, show_resize_handle, mask, mask_pending,
                   saved_center, pos_fix_applied, posfix_queued>>
BeginRotate(cur) ==
    /\ shown
    /\ Command
    /\ emitted' = 0
    /\ last' = "begin_rotate"
    /\ Quiet
    /\ UNCHANGED <<shown, locked, topmost, dragging, resizing, geom, base_w, base_h,
                   pm_base, rotation_angle, drag_start, win_start, resizing_pending_size,
                   start_base_w, start_base_h, resize_anchor_pt, scale_ema,
                   last_applied_geom, nmoves, resize_tri_pts, btn_close_pos,
                   btn_rotate_pos, btn_visible, show_resize_handle, mask, mask_pending,
                   saved_center, pos_fix_applied, posfix_queued>>
    /\ IF locked
       THEN UNCHANGED <<rotating, rotation_start_x, start_angle, grab>>
       ELSE /\ rotating' = TRUE
            /\ rotation_start_x' = cur[1]
            /\ start_angle' = rotation_angle
            /\ grab' = TRUE

\* the centre of the rotate button in global coordinates
RotateButtonCenter ==
    MapToGlobal(<<btn_rotate_pos[1] + (ROT_BTN_W \div 2), btn_rotate_pos[2] + (ROT_BTN_H \div 2)>>,
                geom)

\* ------------------------------------------------------------------- move
\* self.rotate_scale = 0.5 degrees per pixel, in half-degrees per pixel
ROTATE_SCALE_HALF_DEG == 1

\* the variables no mouseMoveEvent branch writes
moveFrame == <<shown, locked, topmost, dragging, resizing, rotating, grab, base_w, base_h,
               pm_base, rotation_start_x, start_angle, drag_start, win_start,
               start_base_w, start_base_h, resize_anchor_pt, mask,
               saved_center, pos_fix_applied, posfix_queued, ncmds, toolbar>>

\* mouseMoveEvent, locked: only the overlay visibility follows the pointer
MoveLocked(gp) ==
    LET pos == MapFromGlobal(gp, geom)
        cur == CurrentImageWH(resizing_pending_size, base_w, base_h)
        inside == IsPosInImage(pos, cur[1], cur[2], rotation_angle, geom)
    IN  /\ shown /\ locked
        /\ btn_visible' = inside
        /\ show_resize_handle' = inside
        /\ emitted' = 0
        /\ last' = "move"
        /\ event_gp' = gp
        /\ NoThrottle
        /\ UNCHANGED moveFrame
        /\ UNCHANGED <<geom, rotation_angle, resizing_pending_size, scale_ema,
                       last_applied_geom, nmoves, resize_tri_pts, btn_close_pos,
                       btn_rotate_pos, mask_pending>>

\* the angle wrapped into [0, 360) degrees
RotatedAngleWrapped(start, dx) == (start + dx * ROTATE_SCALE_HALF_DEG) % 720

\* the angle a rotate-move sets: start_angle + dx * rotate_scale
RotatedAngle(start, dx) == start + dx * ROTATE_SCALE_HALF_DEG

\* mouseMoveEvent, rotating
MoveRotating(gp) ==
    LET pos == MapFromGlobal(gp, geom)
        cur == CurrentImageWH(resizing_pending_size, base_w, base_h)
        dx == gp[1] - rotation_start_x
        angle == RotatedAngle(start_angle, dx)
        ov == PlaceOverlayControls(cur[1], cur[2], angle, geom)
        inside == IsPosInImage(pos, cur[1], cur[2], angle, geom)
    IN  /\ shown /\ ~locked /\ rotating
        /\ angle % 180 = 0
        /\ Abs(angle) <= MaxTurns * 180
        /\ rotation_angle' = angle
        /\ resize_tri_pts' = ov.tri
        /\ btn_close_pos' = ov.close
        /\ btn_rotate_pos' = ov.rotate
        /\ LET th == Throttled(mask_pending, mask_queued)
           IN  /\ mask_pending' = th.pending
               /\ mask_queued' = th.queued
               /\ coalesced' = th.coalesced
        /\ event_gp' = gp
        /\ btn_visible' = inside
        /\ show_resize_handle' = inside
        /\ emitted' = 0
        /\ last' = "move"
        /\ UNCHANGED moveFrame
        /\ UNCHANGED <<geom, resizing_pending_size, scale_ema, last_applied_geom, nmoves>>

\* the raw sample taken as the scale, without smoothing
EmaStepNoSmoothing(ema, s_raw) == s_raw

\* 0.6 * ema + 0.4 * s_raw on exact fractions
EmaStep(ema, s_raw) ==
    LET g == GCD(ema[2], s_raw[2])
        l == (ema[2] \div g) * s_raw[2]
    IN  Frac(3 * ema[1] * (l \div ema[2]) + 2 * s_raw[1] * (l \div s_raw[2]), 5 * l)

\* the short-side correction of the resize preview (source lines 576-583)
MinSideFix(tmp_w, tmp_h) ==
    LET short == Min2(tmp_w, tmp_h)
    IN  IF short < MIN_SIDE
        THEN <<Max2(1, RoundHalfEven(tmp_w * MIN_SIDE, Max2(1, short))),
               Max2(1, RoundHalfEven(tmp_h * MIN_SIDE, Max2(1, short)))>>
        ELSE <<Max2(1, tmp_w), Max2(1, tmp_h)>>

\* one resize sample (source lines 551-584): the new smoothed scale and preview size
ResizeSample(pos) ==
    LET wc == RectCenter(geom)
        vxw == pos[1] - wc[1]
        vyw == pos[2] - wc[2]
        ca == Cos(-rotation_angle)
        sa == Sin(-rotation_angle)
        vxi == vxw * ca - vyw * sa
        vyi == vxw * sa + vyw * ca
        \* self._start_base_w or self.base_w
        w0 == Max2(1, IF start_base_w # 0 THEN start_base_w ELSE base_w)
        h0 == Max2(1, IF start_base_h # 0 THEN start_base_h ELSE base_h)
        \* bx = w0/2, by = h0/2, denom = bx*bx + by*by = d4 / 4
        d4 == w0 * w0 + h0 * h0
        dot == vxi * w0 + vyi * h0
        s_raw == TheOnly({FracMax(<<1, 10>>, r) :
                          r \in {IF d4 <= 0 THEN Frac(dot, 2) ELSE Frac(2 * dot, d4)}})
    IN  TheOnly({[w0 |-> w0, h0 |-> h0, s_raw |-> s_raw, ema |-> ema,
                  size |-> TheOnly({MinSideFix(t[1], t[2]) :
                                    t \in {<<RoundMulFrac(w0, ema), RoundMulFrac(h0, ema)>>}})] :
                 ema \in {EmaStep(scale_ema, s_raw)}})

\* need_apply of mouseMoveEvent: some coordinate of the geometry moves by 2 or more
NeedApplyFromThree(g, n) ==
    \/ Abs(g[1] - n[1]) > GEOM_THRESHOLD
    \/ Abs(g[2] - n[2]) > GEOM_THRESHOLD
    \/ Abs(g[3] - n[3]) > GEOM_THRESHOLD
    \/ Abs(g[4] - n[4]) > GEOM_THRESHOLD
NeedApply(g, n) ==
    \/ Abs(g[1] - n[1]) >= GEOM_THRESHOLD
    \/ Abs(g[2] - n[2]) >= GEOM_THRESHOLD
    \/ Abs(g[3] - n[3]) >= GEOM_THRESHOLD
    \/ Abs(g[4] - n[4]) >= GEOM_THRESHOLD

\* mouseMoveEvent, resizing, from the preview size on (source lines 585-610)
MoveResizingApply(gp, rs) ==
    LET pos == MapFromGlobal(gp, geom)
        new_w == rs.size[1]
        new_h == rs.size[2]
        anchor == IF PointIsSet(resize_anchor_pt)
                  THEN resize_anchor_pt
                  ELSE ImageTopLeftGlobal(rs.w0, rs.h0, rotation_angle, geom)
        required_side == MaxSquareSide(new_w, new_h)
        new_center_global == CenterFromAnchor(anchor, new_w, new_h, rotation_angle)
    IN  \E ng \in {SquareByCenter(new_center_global, required_side)} :
        LET need_apply == NeedApply(geom, ng)
            g2 == IF need_apply THEN ng ELSE geom
            inside == IsPosInImage(pos, new_w, new_h, rotation_angle, g2)
        IN
        \E ov \in {IF need_apply
                   THEN PlaceOverlayControls(new_w, new_h, rotation_angle, g2)
                   ELSE None} :
        /\ new_w <= MaxSide /\ new_h <= MaxSide
        /\ InBox(g2)
        /\ scale_ema' = rs.ema
        /\ nmoves' = nmoves + 1
        /\ resizing_pending_size' = <<new_w, new_h>>
        /\ geom' = g2
        /\ IF need_apply
           THEN /\ resize_tri_pts' = ov.tri
                /\ btn_close_pos' = ov.close
                /\ btn_rotate_pos' = ov.rotate
                \* setGeometry delivers resizeEvent when the size changes, and
                \* resizeEvent calls the throttle before line 604 does
                /\ LET th1 == IF ng[3] # geom[3] \/ ng[4] # geom[4]
                              THEN Throttled(mask_pending, mask_queued)
                              ELSE [pending |-> mask_pending, queued |-> mask_queued,
                                    coalesced |-> FALSE]
                       th2 == Throttled(th1.pending, th1.queued)
                   IN  /\ mask_pending' = th2.pending
                       /\ mask_queued' = th2.queued
                       /\ coalesced' = (th1.coalesced \/ th2.coalesced)
                /\ last_applied_geom' = ng
           ELSE /\ UNCHANGED <<resize_tri_pts, btn_close_pos, btn_rotate_pos, mask_pending,
                               last_applied_geom>>
                /\ NoThrottle
        /\ event_gp' = gp
        /\ btn_visible' = inside
        /\ show_resize_handle' = inside
        /\ emitted' = 0
        /\ last' = "move"
        /\ UNCHANGED moveFrame
        /\ UNCHANGED rotation_angle

\* mouseMoveEvent, resizing
MoveResizing(gp) ==
    /\ shown /\ ~locked /\ ~rotating /\ resizing
    /\ nmoves < MaxMoves
    /\ \E rs \in {ResizeSample(MapFromGlobal(gp, geom))} :
       MoveResizingApply(gp, rs)

\* mouseMoveEvent, dragging
MoveDragging(gp) ==
    LET pos == MapFromGlobal(gp, geom)
        cur == CurrentImageWH(resizing_pending_size, base_w, base_h)
        g2 == <<win_start[1] + gp[1] - drag_start[1], win_start[2] + gp[2] - drag_start[2],
                geom[3], geom[4]>>
        inside == IsPosInImage(pos, cur[1], cur[2], rotation_angle, g2)
    IN  /\ shown /\ ~locked /\ ~rotating /\ ~resizing /\ dragging
        /\ InBox(g2)
        /\ geom' = g2
        /\ btn_visible' = inside
        /\ show_resize_handle' = inside
        /\ emitted' = 0
        /\ last' = "move"
        /\ event_gp' = gp
        /\ NoThrottle
        /\ UNCHANGED moveFrame
        /\ UNCHANGED <<rotation_angle, resizing_pending_size, scale_ema, last_applied_geom,
                       nmoves, resize_tri_pts, btn_close_pos, btn_rotate_pos, mask_pending>>

\* mouseMoveEvent with no gesture: cursor shape and overlay visibility
MoveHover(gp) ==
    LET pos == MapFromGlobal(gp, geom)
        cur == CurrentImageWH(resizing_pending_size, base_w, base_h)
        inside == IsPosInImage(pos, cur[1], cur[2], rotation_angle, geom)
    IN  /\ shown /\ ~locked /\ ~rotating /\ ~resizing /\ ~dragging
        /\ btn_visible' = inside
        /\ show_resize_handle' = inside
        /\ emitted' = 0
        /\ last' = "move"
        /\ event_gp' = gp
        /\ NoThrottle
        /\ UNCHANGED moveFrame
        /\ UNCHANGED <<geom, rotation_angle, resizing_pending_size, scale_ema,
                       last_applied_geom, nmoves, resize_tri_pts, btn_close_pos,
                       btn_rotate_pos, mask_pending>>

\* StickerWindow.mouseMoveEvent
MouseMove(gp) ==
    \/ MoveLocked(gp)
    \/ MoveRotating(gp)
    \/ MoveResizing(gp)
    \/ MoveDragging(gp)
    \/ MoveHover(gp)

\* ---------------------------------------------------------------- release
\* StickerWindow._finalize_pending_resize: the values it leaves, given the
\* pending size (not None)
FinalizePendingResizeMaskDeferred(pending) ==
    LET anchor == IF PointIsSet(resize_anchor_pt)
                  THEN resize_anchor_pt
                  ELSE ImageTopLeftGlobal(pending[1], pending[2], rotation_angle, geom)
        required_side == MaxSquareSide(pending[1], pending[2])
        new_center_global == CenterFromAnchor(anchor, pending[1], pending[2], rotation_angle)
    IN  TheOnly({[base |-> pending, geom |-> g2,
                  ov |-> PlaceOverlayControls(pending[1], pending[2], rotation_angle, g2),
                  mask |-> mask,
                  th |-> Throttled(mask_pending, mask_queued)] :
                 g2 \in {SquareByCenter(new_center_global, required_side)}})
FinalizePendingResize(pending) ==
    LET anchor == IF PointIsSet(resize_anchor_pt)
                  THEN resize_anchor_pt
                  ELSE ImageTopLeftGlobal(pending[1], pending[2], rotation_angle, geom)
        required_side == MaxSquareSide(pending[1], pending[2])
        new_center_global == CenterFromAnchor(anchor, pending[1], pending[2], rotation_angle)
    IN  TheOnly({[base |-> pending, geom |-> g2,
                  ov |-> PlaceOverlayControls(pending[1], pending[2], rotation_angle, g2),
                  mask |-> RotatedRectMask(pending[1], pending[2], rotation_angle, g2),
                  \* setGeometry delivers resizeEvent when the size changes
                  th |-> IF g2[3] # geom[3] \/ g2[4] # geom[4]
                         THEN Throttled(mask_pending, mask_queued)
                         ELSE [pending |-> mask_pending, queued |-> mask_queued,
                               coalesced |-> FALSE]] :
                 g2 \in {SquareByCenter(new_center_global, required_side)}})

\* StickerWindow.mouseReleaseEvent, left button while rotating: _finish_rotate,
\* then return
ReleaseRotating(gp, cur) ==
    LET wh == CurrentImageWH(resizing_pending_size, base_w, base_h)
        inside == IsPosInImage(MapFromGlobal(cur, geom), wh[1], wh[2], rotation_angle, geom)
    IN  /\ shown /\ rotating
        /\ NoCommand
        /\ rotating' = FALSE
        /\ grab' = FALSE
        /\ emitted' = 1
        /\ btn_visible' = inside
        /\ show_resize_handle' = inside
        /\ last' = "release_left"
        /\ Quiet
        /\ rotation_start_x' = 0 /\ start_angle' = 0
        /\ UNCHANGED <<shown, locked, topmost, dragging, resizing, geom, base_w, base_h,
                       pm_base, rotation_angle, drag_start,
                       win_start, resizing_pending_size, start_base_w, start_base_h,
                       resize_anchor_pt, scale_ema, last_applied_geom, nmoves,
                       resize_tri_pts, btn_close_pos, btn_rotate_pos, mask, mask_pending,
                       saved_center, pos_fix_applied, posfix_queued>>

\* the stateChanged emissions of a primary release (source lines 656-664)
ReleaseEmitsResizeOnly(moved, resized) == IF resized THEN 1 ELSE 0
ReleaseEmits(moved, resized) == (IF resized THEN 1 ELSE 0) + (IF moved THEN 1 ELSE 0)

\* StickerWindow.mouseReleaseEvent, left button, not rotating
ReleaseLeft(gp) ==
    LET pos == MapFromGlobal(gp, geom)
        commit == resizing /\ resizing_pending_size # None
    IN  \E fin \in {IF commit THEN FinalizePendingResize(resizing_pending_size) ELSE None} :
        LET g2 == IF commit THEN fin.geom ELSE geom
            cur == IF commit THEN fin.base
                   ELSE CurrentImageWH(resizing_pending_size, base_w, base_h)
            inside == IsPosInImage(pos, cur[1], cur[2], rotation_angle, g2)
        IN
        /\ shown /\ ~rotating
        /\ NoCommand
        /\ InBox(g2)
        /\ dragging' = FALSE
        /\ resizing' = FALSE
        /\ emitted' = ReleaseEmits(dragging, resizing)
        /\ IF commit
           THEN /\ base_w' = fin.base[1]
                /\ base_h' = fin.base[2]
                /\ pm_base' = fin.base
                /\ resizing_pending_size' = None
                /\ geom' = fin.geom
                /\ resize_tri_pts' = fin.ov.tri
                /\ btn_close_pos' = fin.ov.close
                /\ btn_rotate_pos' = fin.ov.rotate
                /\ mask' = fin.mask
                /\ mask_pending' = fin.th.pending
                /\ mask_queued' = fin.th.queued
                /\ coalesced' = fin.th.coalesced
                /\ resize_anchor_pt' = None
                /\ scale_ema' = <<1, 1>>
                /\ last_applied_geom' = None
           ELSE /\ UNCHANGED <<base_w, base_h, pm_base, resizing_pending_size, geom,
                               resize_tri_pts, btn_close_pos, btn_rotate_pos, mask,
                               mask_pending, resize_anchor_pt, scale_ema, last_applied_geom>>
                /\ NoThrottle
        /\ NoPointer /\ UNCHANGED toolbar
        /\ UNCHANGED nmoves
        /\ btn_visible' = inside
        /\ show_resize_handle' = inside
        /\ last' = "release_left"
        /\ drag_start' = None /\ win_start' = None
        /\ start_base_w' = 0 /\ start_base_h' = 0
        /\ UNCHANGED <<shown, locked, topmost, rotating, grab, rotation_angle,
                       rotation_start_x, start_angle, saved_center, pos_fix_applied,
                       posfix_queued>>

\* StickerWindow.mouseReleaseEvent, another button: only the overlay visibility
ReleaseOther(gp) ==
    LET pos == MapFromGlobal(gp, geom)
        cur == CurrentImageWH(resizing_pending_size, base_w, base_h)
        inside == IsPosInImage(pos, cur[1], cur[2], rotation_angle, geom)
    IN  /\ shown
        /\ NoCommand
        /\ btn_visible' = inside
        /\ show_resize_handle' = inside
        /\ emitted' = 0
        /\ last' = "other"
        /\ Quiet
        /\ UNCHANGED <<shown, locked, topmost, dragging, resizing, rotating, grab, geom,
                       base_w, base_h, pm_base, rotation_angle, rotation_start_x,
                       start_angle, drag_start, win_start, resizing_pending_size,
                       start_base_w, start_base_h, resize_anchor_pt, scale_ema,
                       last_applied_geom, nmoves, resize_tri_pts, btn_close_pos,
                       btn_rotate_pos, mask, mask_pending, saved_center, pos_fix_applied,
                       posfix_queued>>

\* ------------------------------------------------------------ enter, leave
\* StickerWindow.enterEvent
EnterEvent(cur) ==
    LET wh == CurrentImageWH(resizing_pending_size, base_w, base_h)
        inside == IsPosInImage(MapFromGlobal(cur, geom), wh[1], wh[2], rotation_angle, geom)
    IN  /\ shown
        /\ NoCommand
        /\ btn_visible' = inside
        /\ show_resize_handle' = inside
        /\ emitted' = 0
        /\ last' = "other"
        /\ Quiet
        /\ UNCHANGED <<shown, locked, topmost, dragging, resizing, rotating, grab, geom,
                       base_w, base_h, pm_base, rotation_angle, rotation_start_x,
                       start_angle, drag_start, win_start, resizing_pending_size,
                       start_base_w, start_base_h, resize_anchor_pt, scale_ema,
                       last_applied_geom, nmoves, resize_tri_pts, btn_close_pos,
                       btn_rotate_pos, mask, mask_pending, saved_center, pos_fix_applied,
                       posfix_queued>>

\* StickerWindow.leaveEvent
LeaveEvent ==
    /\ shown
    /\ NoCommand
    /\ btn_visible' = FALSE
    /\ show_resize_handle' = FALSE
    /\ emitted' = 0
    /\ last' = "other"
    /\ Quiet
    /\ UNCHANGED <<shown, locked, topmost, dragging, resizing, rotating, grab, geom,
                   base_w, base_h, pm_base, rotation_angle, rotation_start_x,
                   start_angle, drag_start, win_start, resizing_pending_size,
                   start_base_w, start_base_h, resize_anchor_pt, scale_ema,
                   last_applied_geom, nmoves, resize_tri_pts, btn_close_pos,
                   btn_rotate_pos, mask, mask_pending, saved_center, pos_fix_applied,
                   posfix_queued>>

\* ------------------------------------------------------------------- menu
\* what the lock action does to the gesture flags once the sticker is locked
\* (source line 707); each is <<dragging, resizing, rotating>>
LockKeepsFlags(d, rz, rt) == <<d, rz, rt>>
LockClearsFlags(d, rz, rt) == <<FALSE, FALSE, FALSE>>

\* StickerWindow._on_menu, "lock position"
MenuLock ==
    LET now == ~locked
        f == IF now THEN LockClearsFlags(dragging, resizing, rotating)
             ELSE <<dragging, resizing, rotating>>
    IN  /\ shown
        /\ Command
        /\ locked' = now
        /\ dragging' = f[1]
        /\ resizing' = f[2]
        /\ rotating' = f[3]
        /\ emitted' = 1
        /\ last' = "menu_lock"
        /\ Quiet
        /\ drag_start' = IF f[1] THEN drag_start ELSE None
        /\ win_start' = IF f[1] THEN win_start ELSE None
        /\ start_base_w' = IF f[2] THEN start_base_w ELSE 0
        /\ start_base_h' = IF f[2] THEN start_base_h ELSE 0
        /\ rotation_start_x' = IF f[3] THEN rotation_start_x ELSE 0
        /\ start_angle' = IF f[3] THEN start_angle ELSE 0
        /\ UNCHANGED <<shown, topmost, grab, geom, base_w, base_h, pm_base, rotation_angle,
                       resizing_pending_size, resize_anchor_pt,
                       scale_ema, last_applied_geom, nmoves, resize_tri_pts, btn_close_pos,
                       btn_rotate_pos, btn_visible, show_resize_handle, mask, mask_pending,
                       saved_center, pos_fix_applied, posfix_queued>>

\* StickerWindow._on_menu, "always on top" / "on the desktop": _apply_topmost(on)
MenuTopmost(on) ==
    /\ shown
    /\ Command
    /\ topmost' = on
    /\ emitted' = 1
    /\ last' = "menu_topmost"
    /\ Quiet
    /\ UNCHANGED <<shown, locked, dragging, resizing, rotating, grab, geom, base_w, base_h,
                   pm_base, rotation_angle, rotation_start_x, start_angle, drag_start,
                   win_start, resizing_pending_size, start_base_w, start_base_h,
                   resize_anchor_pt, scale_ema, last_applied_geom, nmoves, resize_tri_pts,
                   btn_close_pos, btn_rotate_pos, btn_visible, show_resize_handle, mask,
                   mask_pending, saved_center, pos_fix_applied, posfix_queued>>

\* StickerWindow._on_menu, "reset rotation"
MenuReset(cur) ==
    LET wh == CurrentImageWH(resizing_pending_size, base_w, base_h)
        ov == PlaceOverlayControls(wh[1], wh[2], 0, geom)
        inside == IsPosInImage(MapFromGlobal(cur, geom), wh[1], wh[2], 0, geom)
    IN  /\ shown
        /\ Command
        /\ rotation_angle' = 0
        /\ resize_tri_pts' = ov.tri
        /\ btn_close_pos' = ov.close
        /\ btn_rotate_pos' = ov.rotate
        /\ mask' = RotatedRectMask(wh[1], wh[2], 0, geom)
        /\ btn_visible' = inside
        /\ show_resize_handle' = inside
        /\ emitted' = 1
        /\ last' = "menu_reset"
        /\ Quiet
        /\ UNCHANGED <<shown, locked, topmost, dragging, resizing, rotating, grab, geom,
                       base_w, base_h, pm_base, rotation_start_x, start_angle, drag_start,
                       win_start, resizing_pending_size, start_base_w, start_base_h,
                       resize_anchor_pt, scale_ema, last_applied_geom, nmoves,
                       mask_pending, saved_center, pos_fix_applied, posfix_queued>>

\* ------------------------------------------------------------ specification
Next ==
    \/ \E st \in StickerRecords : \E cur \in Cursors : ApplyState(st, cur)
    \/ \E cur \in Cursors : MaskCallback(cur)
    \/ PosFixCallback
    \/ \E gp \in LeftPressCandidates : MousePress("left", gp)
    \/ \E gp \in PressCandidates : MousePress("right", gp)
    \/ BeginRotate(RotateButtonCenter)
    \/ \E gp \in MoveCandidates : MouseMove(gp)
    \/ \E gp \in Cursors : \E cur \in Cursors : ReleaseRotating(gp, cur)
    \/ \E gp \in Cursors : ReleaseLeft(gp)
    \/ \E gp \in Cursors : ReleaseOther(gp)
    \/ \E cur \in Cursors : EnterEvent(cur)
    \/ LeaveEvent
    \/ MenuLock
    \/ \E on \in BOOLEAN : MenuTopmost(on)
    \/ \E cur \in Cursors : MenuReset(cur)

Spec == Init /\ [][Next]_vars

\* ------------------------------------------------------- restore_from_save
\* the image files that exist when the document is restored
ExistingFiles == {"a.png", "b.png"}
\* os.path.exists(path)
PathResolves(path) == path \in ExistingFiles

\* one entry of the "stickers" list: a dict with well-typed fields (legacy
\* records without cx, cy whose square side is even, 226, and odd, 97; a
\* record with cx, cy; records whose file is gone or whose path is empty), a dict
\* whose "w" is not a number (int() raises at line 769, apply_state swallows
\* it and applies nothing), or a value that is not a dict (null, a string)
Entry(kind, path, st) == [kind |-> kind, path |-> path, st |-> st]
DocEntries ==
    {Entry("dict", "a.png", Record(200, 100, 0, TRUE, FALSE, FALSE, 0, 0, 100, 100)),
     Entry("dict", "b.png", Record(64, 70, 180, FALSE, TRUE, TRUE, 300, 200, 7, 7)),
     Entry("dict", "b.png", Record(64, 70, 0, TRUE, FALSE, FALSE, 0, 0, 100, 100)),
     Entry("dict", "gone.png", Record(64, 64, 0, TRUE, FALSE, TRUE, 50, 50, 3, 3)),
     Entry("dict", "", Record(64, 64, 0, TRUE, FALSE, TRUE, 50, 50, 3, 3)),
     Entry("bad_field", "a.png", None),
     Entry("not_dict", "", None)}
Documents ==
    {<<a>> : a \in DocEntries}
    \cup {<<a, b>> : a \in DocEntries, b \in DocEntries}
    \cup (IF MaxDoc >= 3
          THEN {<<a, b, c>> : a \in DocEntries, b \in DocEntries, c \in DocEntries}
          ELSE {})
    \cup (IF MaxDoc >= 4
          THEN {<<a, b, c, d>> : a \in DocEntries, b \in DocEntries, c \in DocEntries,
                                d \in {Entry("dict", "a.png",
                                              Record(200, 100, 0, TRUE, FALSE, FALSE,
                                                     0, 0, 100, 100))}}
          ELSE {})

\* restore_from_save has loaded the document and enters its loop
InitRestore ==
    /\ StickerInit
    /\ \E doc \in Documents :
          toolbar = [phase |-> "loop", doc |-> doc, i |-> 1, stickers |-> <<>>,
                     cleaned |-> <<>>, written |-> FALSE, saved |-> <<>>]

\* the sticker create_sticker appends for entry i, after apply_state and show()
RestoredSticker(i, e) ==
    [idx |-> i, path |-> e.path,
     applied |-> IF e.kind = "dict" THEN AppliedState(e.st) ELSE None]

\* what one iteration of the loop does with an entry that is not a dict:
\* st.get raises, the except of line 986 ends restore_from_save
RestoreNotDict(tb) == [tb EXCEPT !.phase = "aborted"]

\* one iteration of `for st in stickers` (source lines 971-980)
RestoreRecord ==
    /\ toolbar.phase = "loop"
    /\ toolbar.i <= Len(toolbar.doc)
    /\ LET e == toolbar.doc[toolbar.i]
       IN  toolbar' =
             IF e.kind = "not_dict"
             THEN RestoreNotDict(toolbar)
             ELSE IF e.path = "" \/ ~PathResolves(e.path)
             THEN [toolbar EXCEPT !.i = toolbar.i + 1]
             ELSE [toolbar EXCEPT !.i = toolbar.i + 1,
                                  !.stickers = Append(@, RestoredSticker(toolbar.i, e)),
                                  !.cleaned = Append(@, e)]
    /\ UNCHANGED stickerVars

\* the paths of a list of entries or stickers, in order
Paths(seq) == [k \in 1..Len(seq) |-> seq[k].path]

\* after the loop (source lines 982-984): the compacted document is written
\* when an entry was dropped
RestoreEnd ==
    /\ toolbar.phase = "loop"
    /\ toolbar.i > Len(toolbar.doc)
    /\ toolbar' =
          IF Len(toolbar.cleaned) # Len(toolbar.doc)
          THEN [toolbar EXCEPT !.phase = "done", !.written = TRUE,
                               !.saved = Paths(toolbar.cleaned)]
          ELSE [toolbar EXCEPT !.phase = "done"]
    /\ UNCHANGED stickerVars

\* StickerToolbar.save_all, on the first stateChanged of a sticker after the
\* restore: build_state writes to_state() of every sticker of self.stickers
SaveAll ==
    /\ toolbar.phase \in {"done", "aborted"}
    /\ toolbar' = [toolbar EXCEPT !.phase = "saved", !.written = TRUE,
                                  !.saved = Paths(toolbar.stickers)]
    /\ UNCHANGED stickerVars

NextRestore ==
    \/ RestoreRecord
    \/ RestoreEnd
    \/ SaveAll

SpecRestore == InitRestore /\ [][NextRestore]_vars

\* ---------------------------------------------------------- create_sticker
\* natural sizes of the images pick_images hands to create_sticker: below,
\* at and above the 320 limit of base_scale, and larger than the screen
CreateWidths == {30, 300, 321, 640, 1200, 4000}
CreateHeights == {30, 300, 321, 800, 2000}

\* the base size before the short-side correction (source lines 259-265)
InitialSizeUncorrected(nw, nh) ==
    LET max_w == TruncDiv(Min2(SCREEN_W * 35, MAX_INIT_SIDE * 100), 100)
        max_h == TruncDiv(Min2(SCREEN_H * 35, MAX_INIT_SIDE * 100), 100)
        fit_scale == FracMin(FracMin(Frac(max_w, Max2(1, nw)), Frac(max_h, Max2(1, nh))),
                             <<1, 1>>)
        base_scale == IF nw <= SMALL_IMAGE_SIDE \/ nh <= SMALL_IMAGE_SIDE
                      THEN <<1, 1>> ELSE <<3, 5>>
        s == FracMin(fit_scale, base_scale)
    IN  <<Max2(1, TruncMulFrac(nw, s)), Max2(1, TruncMulFrac(nh, s))>>

\* pick_images has a file of natural size nat to create a sticker from
InitCreate ==
    /\ StickerInit
    /\ \E nw \in CreateWidths, nh \in CreateHeights :
          toolbar = [phase |-> "picked", natural |-> <<nw, nh>>]

\* StickerToolbar.create_sticker: StickerWindow.__init__ sizes the sticker
CreateSticker ==
    /\ toolbar.phase = "picked"
    /\ LET nat == toolbar.natural
           un == InitialSizeUncorrected(nat[1], nat[2])
           sz == InitialSize(nat[1], nat[2])
       IN  toolbar' = [phase |-> "created", natural |-> nat,
                       short_fixed |-> (Min2(un[1], un[2]) < MIN_SIDE),
                       base |-> sz]
    /\ UNCHANGED stickerVars

NextCreate == CreateSticker

SpecCreate == InitCreate /\ [][NextCreate]_vars

\* ------------------------------------------- _apply_rotated_rect_mask alone
\* image sides a sticker can have (restored records give every side >= 32)
MaskSides == 32..52
\* rotations <<c, s, d>> with cos = c/d and sin = s/d exact: the quarter turns
\* and the turns by the angles of the 3-4-5 and 20-21-29 triangles, which put
\* a corner of a 3:4 or 20:21 image on an axis of the window
Rotations ==
    {<<1, 0, 1>>, <<0, 1, 1>>, <<-1, 0, 1>>, <<0, -1, 1>>}
    \cup {<<a * 3, b * 4, 5>> : a \in {-1, 1}, b \in {-1, 1}}
    \cup {<<a * 4, b * 3, 5>> : a \in {-1, 1}, b \in {-1, 1}}
    \cup {<<a * 20, b * 21, 29>> : a \in {-1, 1}, b \in {-1, 1}}
    \cup {<<a * 21, b * 20, 29>> : a \in {-1, 1}, b \in {-1, 1}}
\* the window's side minus _max_square_side of the displayed size: 0, or one
\* pixel either way while a resize preview is below the geometry threshold
SideLags == {-1, 0, 1}

\* StickerWindow._apply_rotated_rect_mask rotating about the corner of the
\* widget rect instead of its centre
RotatedRectMaskAtOrigin(w, h, rot, g) ==
    LET hw == w \div 2
        hh == h \div 2
        P(px, py) == <<RoundHalfEven(px * rot[1] - py * rot[2], rot[3]),
                       RoundHalfEven(px * rot[2] + py * rot[1], rot[3])>>
    IN  <<P(-hw, -hh), P(hw, -hh), P(hw, hh), P(-hw, hh)>>

\* StickerWindow._apply_rotated_rect_mask for a rotation given by its cosine
\* and sine: QPoint(int(round(x)), int(round(y))) of each rotated corner
RotatedRectMaskAt(w, h, rot, g) ==
    LET hw == w \div 2
        hh == h \div 2
        c == RectCenter(g)
        P(px, py) == <<RoundHalfEven(px * rot[1] - py * rot[2] + c[1] * rot[3], rot[3]),
                       RoundHalfEven(px * rot[2] + py * rot[1] + c[2] * rot[3], rot[3])>>
    IN  <<P(-hw, -hh), P(hw, -hh), P(hw, hh), P(-hw, hh)>>

\* a sticker of displayed size w x h, turned, in a window of the side the
\* code gave it
InitMask ==
    /\ StickerInit
    /\ shown
    /\ \E w \in MaskSides, h \in MaskSides, rot \in Rotations, lag \in SideLags :
          LET side == MaxSquareSide(w, h) + lag
          IN  toolbar = [phase |-> "turned", w |-> w, h |-> h, rot |-> rot,
                         rect |-> <<0, 0, side, side>>, lag |-> lag]

\* StickerWindow._apply_rotated_rect_mask: setMask(region)
ApplyMask ==
    /\ toolbar.phase = "turned"
    /\ toolbar' = [phase |-> "masked", w |-> toolbar.w, h |-> toolbar.h,
                   rot |-> toolbar.rot, rect |-> toolbar.rect, lag |-> toolbar.lag,
                   mask |-> RotatedRectMaskAt(toolbar.w, toolbar.h, toolbar.rot,
                                              toolbar.rect)]
    /\ UNCHANGED stickerVars

NextMask == ApplyMask

SpecMask == InitMask /\ [][NextMask]_vars

\* --------------------------------------------------------- SaveManager.save
\* a file that does not exist
Absent == "absent"
\* contents of Save.dat before the write, of a Save.dat.tmp left by an earlier
\* run, and the documents to write
OldDocuments == {Absent, "old"}
StaleTemps == {Absent, "stale"}
NewDocuments == {"new1", "new2"}
\* the step of save() that raises: none, open(tmp, "w"), json.dump, f.flush(),
\* os.fsync, os.replace
SaveFaults == {"none", "open", "dump", "flush", "fsync", "replace"}

\* SaveManager.save with an except clause that removes nothing
SaveManagerSaveNoCleanup(fs, data, fault, remove_fails) ==
    IF fault = "none" THEN [doc |-> data, tmp |-> Absent, raised |-> FALSE]
    ELSE IF fault = "open" THEN [doc |-> fs.doc, tmp |-> fs.tmp, raised |-> FALSE]
    ELSE IF fault = "replace" THEN [doc |-> fs.doc, tmp |-> data, raised |-> FALSE]
    ELSE [doc |-> fs.doc, tmp |-> "partial", raised |-> FALSE]

\* SaveManager.save: the files it leaves and whether an exception leaves it.
\* open() that raises leaves Save.dat.tmp as it was; a later step that raises
\* leaves it truncated or partly written, os.replace that raises leaves it
\* complete; the except clause removes it when it exists, and swallows the
\* failure of os.remove
SaveManagerSave(fs, data, fault, remove_fails) ==
    LET tmp == IF fault = "open" THEN fs.tmp
               ELSE IF fault = "replace" THEN data
               ELSE "partial"
    IN  IF fault = "none"
        THEN [doc |-> data, tmp |-> Absent, raised |-> FALSE]
        ELSE [doc |-> fs.doc,
              tmp |-> IF tmp # Absent /\ remove_fails THEN tmp ELSE Absent,
              raised |-> FALSE]

\* save() is called with a document
InitSave ==
    /\ StickerInit
    /\ \E old \in OldDocuments, stale \in StaleTemps, data \in NewDocuments,
          fault \in SaveFaults, remove_fails \in BOOLEAN :
          toolbar = [phase |-> "saving", before |-> [doc |-> old, tmp |-> stale],
                     data |-> data, fault |-> fault, remove_fails |-> remove_fails]

\* the call returns
SaveReturns ==
    /\ toolbar.phase = "saving"
    /\ toolbar' = [phase |-> "returned", before |-> toolbar.before, data |-> toolbar.data,
                   fault |-> toolbar.fault, remove_fails |-> toolbar.remove_fails,
                   after |-> SaveManagerSave(toolbar.before, toolbar.data, toolbar.fault,
                                             toolbar.remove_fails)]
    /\ UNCHANGED stickerVars

NextSave == SaveReturns

SpecSave == InitSave /\ [][NextSave]_vars

\* ------------------------------------------------------- quit and teardown
\* stickers of one run of the application
StickerIds == 1..MaxStickers

\* StickerToolbar.build_state: to_state() of every sticker of self.stickers
\* (of a record only the locked flag is kept here)
BuildState(tb) == [i \in tb.stickers |-> tb.locked[i]]

\* StickerToolbar.save_all without the IS_EXITING test
save_all_unguarded(tb) == [tb EXCEPT !.doc = BuildState(tb)]

\* StickerToolbar.save_all
save_all(tb) == IF tb.IS_EXITING THEN tb ELSE [tb EXCEPT !.doc = BuildState(tb)]

\* the application runs: restore_from_save has created the stickers of the
\* persisted document.  stickers is self.stickers, closing the stickers whose
\* close() has run and whose destroyed signal is still to come, used the ids
\* given out so far; at_quit and doc_at_quit record the open stickers and the
\* document at the first quit request
InitQuit ==
    /\ StickerInit
    /\ shown
    /\ \E S \in SUBSET StickerIds :
          toolbar = [IS_EXITING |-> FALSE, stickers |-> S, closing |-> {}, used |-> S,
                     locked |-> [i \in S |-> FALSE], doc |-> [i \in S |-> FALSE],
                     at_quit |-> {}, doc_at_quit |-> <<>>, last |-> "restore"]

\* StickerToolbar.pick_images with one file: create_sticker, then save_all
PickImage(i) ==
    /\ ~toolbar.IS_EXITING
    /\ i \notin toolbar.used
    /\ toolbar' = save_all([toolbar EXCEPT !.stickers = @ \cup {i},
                                            !.used = @ \cup {i},
                                            !.locked = [j \in toolbar.stickers \cup {i} |->
                                                          IF j = i THEN FALSE
                                                          ELSE toolbar.locked[j]],
                                            !.last = "pick"])
    /\ UNCHANGED stickerVars

\* a sticker's stateChanged (here: the lock toggle of its menu) reaches save_all
StickerStateChanged(i) ==
    /\ i \in toolbar.stickers \ toolbar.closing
    /\ toolbar' = save_all([toolbar EXCEPT !.locked[i] = ~@, !.last = "changed"])
    /\ UNCHANGED stickerVars

\* StickerWindow._on_menu, "close": close() of a WA_DeleteOnClose window; the
\* destroyed signal follows from the event loop
StickerClose(i) ==
    /\ i \in toolbar.stickers \ toolbar.closing
    /\ toolbar' = [toolbar EXCEPT !.closing = @ \cup {i}, !.last = "close"]
    /\ UNCHANGED stickerVars

\* StickerToolbar._on_about_to_quit, from _quit_app or from aboutToQuit
QuitRequest ==
    /\ toolbar' = [toolbar EXCEPT
                     !.IS_EXITING = TRUE,
                     !.at_quit = IF toolbar.IS_EXITING THEN @
                                 ELSE toolbar.stickers \ toolbar.closing,
                     !.doc_at_quit = IF toolbar.IS_EXITING THEN @ ELSE toolbar.doc,
                     !.last = "quit"]
    /\ UNCHANGED stickerVars

\* the destroyed signal of a sticker, after its close() or at teardown:
\* StickerToolbar._cleanup_and_save
StickerDestroyed(i) ==
    /\ i \in toolbar.stickers
    /\ i \in toolbar.closing \/ toolbar.IS_EXITING
    /\ toolbar' = save_all([toolbar EXCEPT
                              !.stickers = @ \ {i},
                              !.closing = @ \ {i},
                              !.locked = [j \in toolbar.stickers \ {i} |-> toolbar.locked[j]],
                              !.last = "destroyed"])
    /\ UNCHANGED stickerVars

NextQuit ==
    \/ \E i \in StickerIds : PickImage(i)
    \/ \E i \in StickerIds : StickerStateChanged(i)
    \/ \E i \in StickerIds : StickerClose(i)
    \/ QuitRequest
    \/ \E i \in StickerIds : StickerDestroyed(i)

SpecQuit == InitQuit /\ [][NextQuit]_vars

\* ------------------------------------------------------------------ claims
Idle == ~dragging /\ ~resizing /\ ~rotating
\* a primary-button release that ends a resize gesture
ResizeEnds == resizing /\ ~resizing' /\ last' = "release_left"
\* the size the sticker displays, as the code reads it
Displayed == CurrentImageWH(resizing_pending_size, base_w, base_h)

\* C1: in every reachable state at most one of dragging, resizing, rotating
\* is true.
C1_AtMostOneGesture ==
    /\ ~(dragging /\ resizing)
    /\ ~(dragging /\ rotating)
    /\ ~(resizing /\ rotating)

\* C2: once mouseReleaseEvent has handled a primary-button release, dragging,
\* resizing and rotating are all false.
C2_ReleaseLeavesIdle == last = "release_left" => Idle

\* C3: a locked sticker is Idle in every reachable state; in particular the
\* state a primary press or a begin-rotate trigger leaves while locked has all
\* three flags false.
C3_LockedIsIdle == locked => Idle
C3_Witness == locked /\ last = "begin_rotate" /\ ncmds = 1

\* C4: in every reachable state where no gesture flag is set the sticker does
\* not hold the mouse grab.
C4_IdleHoldsNoGrab == Idle => ~grab

\* C5: in every reachable state where resizing is false the pending preview
\* size and the captured anchor are cleared, so that the displayed size is the
\* committed base size.
C5_SessionOnlyWhileResizing ==
    ~resizing => /\ resizing_pending_size = None
                 /\ resize_anchor_pt = None
                 /\ Displayed = <<base_w, base_h>>

\* C6: a primary-button release that ends a resize gesture makes the base size
\* the pending preview size it found, leaves the mask and the overlay layout
\* computed for that size and the new geometry, clears the session (pending
\* size none, anchor none, smoothed scale 1) and emits stateChanged.
C6_CommitOnRelease ==
    [][ResizeEnds =>
        /\ <<base_w', base_h'>> = resizing_pending_size
        /\ pm_base' = resizing_pending_size
        /\ mask' = RotatedRectMask(base_w', base_h', rotation_angle', geom')
        /\ LET ov == PlaceOverlayControls(base_w', base_h', rotation_angle', geom')
           IN  /\ resize_tri_pts' = ov.tri
               /\ btn_close_pos' = ov.close
               /\ btn_rotate_pos' = ov.rotate
        /\ resizing_pending_size' = None
        /\ resize_anchor_pt' = None
        /\ scale_ema' = <<1, 1>>
        /\ emitted' >= 1]_vars
C6_Witness ==
    /\ last = "release_left" /\ ncmds = 1 /\ nmoves > 0 /\ emitted = 1
    /\ <<base_w, base_h>> # <<MIN_SIDE, MIN_SIDE>>

\* C7: after every release that ends a resize gesture, min(base_w, base_h) >= 64.
C7_MinSideAfterCommit ==
    [][ResizeEnds => Min2(base_w', base_h') >= MIN_SIDE]_vars

\* C8: base_w >= 32 and base_h >= 32 in every reachable state.
C8_BaseAtLeast32 == base_w >= MIN_STATE_SIDE /\ base_h >= MIN_STATE_SIDE
C8_Witness ==
    last = "apply_state" /\ base_w = MIN_STATE_SIDE /\ base_h = MIN_STATE_SIDE

C10_AnchorWithinOne ==
    (resizing /\ ~rotating /\ last = "move" /\ PointIsSet(resize_anchor_pt)) =>
        LET p == ImageTopLeftGlobal(resizing_pending_size[1], resizing_pending_size[2],
                                    rotation_angle, geom)
        IN  /\ Abs(p[1] - resize_anchor_pt[1]) <= 1
            /\ Abs(p[2] - resize_anchor_pt[2]) <= 1
C10_Witness ==
    /\ resizing /\ ~rotating /\ last = "move" /\ nmoves = MaxMoves
    /\ resizing_pending_size # <<start_base_w, start_base_h>>

\* the points a hit test is asked about: the corners of the stored handle
\* triangle and the places of a press, in widget coordinates
QueryPoints ==
    {resize_tri_pts[i] : i \in 1..3} \cup {MapFromGlobal(gp, geom) : gp \in PressCandidates}
\* the hover test at p, as _update_overlay_visibility(p) would compute it
HoverAt(p) == IsPosInImage(p, Displayed[1], Displayed[2], rotation_angle, geom)

\* C11: in every reachable state and for every query point p, if the hover
\* test at p is false then _hit_test_resize(p) is false.
C11_HitOnlyWhereHover == \A p \in QueryPoints : ~HoverAt(p) => ~HitTestResize(p)

\* a primary-button press handled by an unlocked sticker with no gesture in progress
PressFromIdle == last' = "press_left" /\ ~locked /\ Idle

\* C12: a primary press on an unlocked Idle sticker enters Resizing if and only
\* if _hit_test_resize accepts the press position, and Dragging otherwise; it
\* never enters Rotating, which only the begin-rotate trigger enters.
C12_PressEntersGesture ==
    [][/\ PressFromIdle =>
            LET hit == HitTestResize(MapFromGlobal(event_gp', geom))
            IN  /\ hit => (resizing' /\ ~dragging')
                /\ ~hit => (dragging' /\ ~resizing')
                /\ ~rotating'
       /\ (~rotating /\ rotating') => last' = "begin_rotate"]_vars
C12_Witness ==
    /\ last = "press_left" /\ ncmds = 1
    /\ resizing /\ ~dragging /\ ~rotating
    /\ HoverAt(MapFromGlobal(event_gp, geom))

\* what a gesture in progress has changed since it began
DragMoved == dragging /\ win_start # None /\ <<geom[1], geom[2]>> # win_start
ResizeChanged ==
    /\ resizing /\ resizing_pending_size # None
    /\ \/ resizing_pending_size # <<start_base_w, start_base_h>>
       \/ last_applied_geom # None /\ geom # last_applied_geom
RotateTurned == rotating /\ rotation_angle # start_angle

\* C13: a handler that takes the sticker out of Dragging, Resizing or Rotating
\* (a release, or the lock action) after the gesture changed the position, the
\* size or the angle emits stateChanged at least once before it returns.
C13_GestureEndEmits ==
    [][(\/ DragMoved /\ ~dragging'
        \/ ResizeChanged /\ ~resizing'
        \/ RotateTurned /\ ~rotating') => emitted' >= 1]_vars
C13_Witness ==
    /\ last = "release_left" /\ Idle /\ ncmds = 1 /\ emitted = 1
    /\ resizing_pending_size = None /\ rotation_angle = 0
    /\ \E sp \in StartPositions : \E d \in DragDeltas :
          d # <<0, 0>> /\ <<geom[1], geom[2]>> = <<sp[1] + d[1], sp[2] + d[2]>>

\* restore_from_save has returned
RestoreOver == toolbar.phase \in {"done", "aborted", "saved"}
\* an entry whose path names an existing file
Resolvable(e) == e.kind # "not_dict" /\ e.path # "" /\ PathResolves(e.path)
Malformed(e) == e.kind \in {"not_dict", "bad_field"}
RestoredIdx == {toolbar.stickers[j].idx : j \in 1..Len(toolbar.stickers)}

\* C14: when the document holds one malformed entry (not a dict, or a dict
\* with a field of the wrong type), every other entry whose path resolves has
\* its sticker once restore_from_save has returned.
C14_OthersRestored ==
    (RestoreOver
     /\ Cardinality({k \in 1..Len(toolbar.doc) : Malformed(toolbar.doc[k])}) = 1) =>
        \A k \in 1..Len(toolbar.doc) :
            (Resolvable(toolbar.doc[k]) /\ ~Malformed(toolbar.doc[k])) => k \in RestoredIdx

\* the paths of the entries whose path resolves, in document order
ResolvablePaths == Paths(SelectSeq(toolbar.doc, Resolvable))

\* C15: once restore_from_save has returned, the stickers created are exactly
\* the entries whose path resolves, in document order (an entry with an empty
\* or unresolvable path created none), and the document written next holds
\* exactly those entries.
C15_ResolvableRestoredAndKept ==
    RestoreOver =>
        /\ Paths(toolbar.stickers) = ResolvablePaths
        /\ toolbar.written => toolbar.saved = ResolvablePaths

\* the sticker apply_state makes of the record to_state gives of this state
RoundTrip == AppliedState(ToState)

\* C16: in every reachable state, applying the record to_state produces
\* reproduces base_w, base_h, the angle, locked and topmost exactly, and the
\* centre of the window frame within one pixel on each axis.
C16_RecordRoundTrip ==
    /\ RoundTrip.base_w = base_w
    /\ RoundTrip.base_h = base_h
    /\ RoundTrip.angle = rotation_angle
    /\ RoundTrip.locked = locked
    /\ RoundTrip.topmost = topmost
    /\ \A g \in {RoundTrip.g1, RoundTrip.geom} :
          /\ Abs(FrameCenter(g)[1] - FrameCenter(geom)[1]) <= 1
          /\ Abs(FrameCenter(g)[2] - FrameCenter(geom)[2]) <= 1
C16_Witness ==
    /\ last = "release_left" /\ Idle /\ nmoves > 0
    /\ rotation_angle # 0
    /\ FrameCenter(RoundTrip.geom) # FrameCenter(geom)

\* the well-typed entries that got a sticker, as <<record, restored sticker>>
RestoredPairs ==
    {<<toolbar.doc[toolbar.stickers[j].idx].st, toolbar.stickers[j].applied>> :
        j \in {i \in 1..Len(toolbar.stickers) : toolbar.stickers[i].applied # None}}

\* C17: the centre apply_state restores is (cx, cy) when the record carries
\* both, whatever its x and y; for a legacy record it is (x + S/2, y + S/2),
\* S/2 the integer half of S = ceil(sqrt(w^2 + h^2)) + 2 of the clamped size.
\* The record {x:100, y:100, w:200, h:100} gives S = 226 and centre (213, 213).
C17_RestoredCenter ==
    RestoreOver =>
        \A p \in RestoredPairs :
            LET st == p[1]
                w == IF st.w < 32 THEN 32 ELSE st.w
                h == IF st.h < 32 THEN 32 ELSE st.h
                S == CeilSqrt(w * w + h * h) + 2
            IN  /\ st.has_center => p[2].center = <<st.cx, st.cy>>
                /\ ~st.has_center => p[2].center = <<st.x + (S \div 2), st.y + (S \div 2)>>
                /\ (~st.has_center /\ <<st.x, st.y, st.w, st.h>> = <<100, 100, 200, 100>>) =>
                       (S = 226 /\ p[2].center = <<213, 213>>)
C17_Witness ==
    /\ RestoreOver
    /\ \E p \in RestoredPairs :
          ~p[1].has_center /\ p[2].center = <<213, 213>> /\ p[2].g1[3] = 226
    /\ \E p \in RestoredPairs :
          p[1].has_center /\ <<p[1].x, p[1].y>> # <<p[2].g1[1], p[2].g1[2]>>

\* the deferred mask callback has just run
MaskCallbackRan == last' = "callback" /\ mask_queued' # mask_queued

\* C18: at most one deferred mask callback is queued at any time and
\* _mask_pending is true exactly while it is queued; a handler whose throttled
\* trigger finds the flag set leaves one callback queued, no handler adds a
\* callback while the flag is set, and the callback, when it runs, empties the
\* queue with one recomputation of the mask for the state it finds.
C18_MaskCoalesced ==
    /\ [](mask_queued <= 1 /\ (mask_pending <=> mask_queued = 1))
    /\ [][/\ coalesced' => (mask_pending' /\ mask_queued' = 1)
          /\ (mask_pending /\ last' # "callback") =>
                (mask_pending' /\ mask_queued' = mask_queued)
          /\ MaskCallbackRan =>
                /\ mask_queued' = 0 /\ ~mask_pending'
                /\ mask' = RotatedRectMask(Displayed[1], Displayed[2],
                                           rotation_angle, geom)]_vars
C18_Witness ==
    /\ coalesced /\ mask_pending /\ mask_queued = 1
    /\ last = "move" /\ rotating /\ rotation_angle # start_angle
    /\ mask # RotatedRectMask(Displayed[1], Displayed[2], rotation_angle, geom)

\* ---------------------------------------------------------------- C19
\* a step in which mouseMoveEvent took a resize sample
ResizeSampled == last' = "move" /\ nmoves' = nmoves + 1
\* the clamped raw projection max(0.1, s_raw) of the sample at the handled position
SampleScale == ResizeSample(MapFromGlobal(event_gp', geom)).s_raw
\* n/m = 0.6 * a/b + 0.4 * c/d = (3 * a * (l/b) + 2 * c * (l/d)) / (5 * l) for
\* the least common multiple l of b and d, both sides in lowest terms
IsEmaOf(nm, ab, cd) ==
    LET l == (ab[2] \div GCD(ab[2], cd[2])) * cd[2]
    IN  nm = Frac(3 * ab[1] * (l \div ab[2]) + 2 * cd[1] * (l \div cd[2]), 5 * l)

\* C19: the smoothed scale is 1 when a press begins a resize; every resize
\* sample sets it to 0.6 times its old value plus 0.4 times max(0.1, s_raw), so
\* a sample with s_raw = 5 taken at smoothed scale 1 gives 2.6; and it never
\* drops below 0.1.
C19_EmaSmoothing ==
    /\ [](scale_ema[2] > 0 /\ 10 * scale_ema[1] >= scale_ema[2])
    /\ [][/\ (last' = "press_left" /\ ~resizing /\ resizing') => scale_ema' = <<1, 1>>
          /\ ResizeSampled =>
                /\ 10 * SampleScale[1] >= SampleScale[2]
                /\ IsEmaOf(scale_ema', scale_ema, SampleScale)
                /\ (scale_ema = <<1, 1>> /\ SampleScale = <<5, 1>>) =>
                        scale_ema' = <<13, 5>>
          /\ (~ResizeSampled /\ resizing /\ resizing') => scale_ema' = scale_ema]_vars
\* the first sample of a resize had s_raw = 5 and left the smoothed scale at 2.6
C19_Witness ==
    /\ resizing /\ last = "move" /\ nmoves = 1
    /\ scale_ema = <<13, 5>>

\* ---------------------------------------------------------------- C20
\* a step in which mouseMoveEvent ran while a rotation was in progress
RotateMoved == rotating /\ last' = "move"
\* a step in which the rotate button's pressed signal began a rotation
RotateBegun == last' = "begin_rotate" /\ rotating'

\* C20: the begin-rotate trigger captures the angle and the pointer column;
\* they stay as captured while the rotation lasts; and after every pointer
\* move of a rotation the angle is the captured angle plus half a degree per
\* pixel of horizontal pointer travel (one half-degree unit per pixel), neither
\* wrapped nor clamped, whatever the pointer's row.
C20_RotationFollowsPointerX ==
    /\ [](rotating => ~locked)
    /\ [][/\ RotateBegun => start_angle' = rotation_angle
          /\ (rotating /\ rotating' /\ ~RotateBegun) =>
                (start_angle' = start_angle /\ rotation_start_x' = rotation_start_x)
          /\ RotateMoved =>
                /\ rotating'
                /\ rotation_angle' = start_angle + (event_gp'[1] - rotation_start_x)]_vars
\* a rotate-move a full turn right of the start column and off the centre row
\* left the angle at 360 degrees or more
C20_Witness ==
    /\ rotating /\ last = "move"
    /\ event_gp[1] - rotation_start_x = 720
    /\ event_gp[2] # geom[2] + RectCenter(geom)[2]
    /\ rotation_angle >= 720

\* ---------------------------------------------------------------- C21
\* C21: a sticker created from an image of natural size 1200 x 800 on a screen
\* with available size 1920 x 1080 gets base_w = 432 and base_h = 288, and
\* the short-side correction is not triggered.
C21_ScenarioA ==
    (toolbar.phase = "created" /\ toolbar.natural = <<1200, 800>>) =>
        (toolbar.base = <<432, 288>> /\ ~toolbar.short_fixed)

\* ---------------------------------------------------------------- C22
\* the angle, in half-degrees, of a quarter-turn rotation
QuarterAngle(rot) == CHOOSE a \in {0, 180, 360, 540} : Cos(a) = rot[1] /\ Sin(a) = rot[2]
\* the coordinates of the four corners of a polygon
CornerCoords(poly) == {poly[i][j] : i \in 1..4, j \in 1..2}

C23_FailedWriteKeepsDocument ==
    toolbar.phase = "returned" =>
        /\ ~toolbar.after.raised
        /\ toolbar.fault # "none" =>
              /\ toolbar.after.doc = toolbar.before.doc
              /\ ~toolbar.remove_fails => toolbar.after.tmp = Absent
        /\ toolbar.fault = "none" =>
              (toolbar.after.doc = toolbar.data /\ toolbar.after.tmp = Absent)
\* os.replace failed over an existing document and the temp file was removed
C23_Witness ==
    /\ toolbar.phase = "returned"
    /\ toolbar.fault = "replace" /\ ~toolbar.remove_fails
    /\ toolbar.before.doc = "old" /\ toolbar.after.doc = "old"
    /\ toolbar.after.tmp = Absent

\* ---------------------------------------------------------------- C24
\* C24: IS_EXITING is false at the start, a quit request sets it and nothing
\* resets it; once it is set the persisted document stays as the quit request
\* found it, whatever stateChanged and destroyed signals follow, so every
\* sticker open at the quit request is still in the document after teardown.
C24_NoWriteAfterQuit ==
    /\ [](toolbar.last = "restore" => ~toolbar.IS_EXITING)
    /\ [](toolbar.IS_EXITING =>
             /\ toolbar.doc = toolbar.doc_at_quit
             /\ toolbar.at_quit \subseteq DOMAIN toolbar.doc)
    /\ [][/\ toolbar.IS_EXITING => toolbar.IS_EXITING'
          /\ toolbar.last' = "quit" => toolbar.IS_EXITING']_vars
\* teardown has destroyed every sticker, and the document still holds the
\* stickers that were open at the quit request
C24_Witness ==
    /\ toolbar.IS_EXITING /\ toolbar.last = "destroyed"
    /\ toolbar.stickers = {}
    /\ Cardinality(toolbar.at_quit) >= 2
    /\ toolbar.at_quit \subseteq DOMAIN toolbar.doc

\* ---------------------------------------------------------------- C25
\* the overlay layout _place_overlay_controls computes for the current state
OverlayNow == PlaceOverlayControls(Displayed[1], Displayed[2], rotation_angle, geom)
\* a handler has returned with the size, the angle or the preview size changed
LayoutInputChanged ==
    \/ <<base_w', base_h'>> # <<base_w, base_h>>
    \/ rotation_angle' # rotation_angle
    \/ resizing_pending_size' # resizing_pending_size

\* C25: after every handler that changes the size, the angle or the resize
\* preview size, the close-control position, the rotate-control position and
\* the handle triangle are those computed from the current displayed size,
\* angle and widget-rect centre, also after a resize-move whose geometry
\* change is below the threshold.
C25_OverlayFollowsChange ==
    [][LayoutInputChanged =>
          /\ btn_close_pos' = OverlayNow'.close
          /\ btn_rotate_pos' = OverlayNow'.rotate
          /\ resize_tri_pts' = OverlayNow'.tri]_vars

\* ---------------------------------------------------------------- C26
\* C26: a resize-move changes the window geometry only if the newly computed
\* geometry differs from the last applied geometry by more than 2 pixels in x,
\* y, width or height; otherwise the geometry stays and only the pending
\* preview size (with the smoothed scale) is updated.
C26_DebounceAboveThreshold ==
    [][ResizeSampled =>
          /\ geom' # geom =>
                \E k \in 1..4 : Abs(geom'[k] - last_applied_geom[k]) > 2
          /\ geom' = geom =>
                UNCHANGED <<resize_tri_pts, btn_close_pos, btn_rotate_pos, mask,
                            mask_pending, last_applied_geom, base_w, base_h>>]_vars

\* ---------------------------------------------------------------- C27
\* C27: whenever the sticker is Idle and no deferred mask callback is pending,
\* the window mask is the polygon computed from the current displayed size,
\* the current angle and the current widget-rect centre.
C27_MaskAtQuiescence ==
    (Idle /\ ~mask_pending /\ mask_queued = 0) =>
        mask = RotatedRectMask(Displayed[1], Displayed[2], rotation_angle, geom)

\* the record to_state returns for the sticker apply_state and show() make
\* of the record to_state gives of this state
RoundTripRecord ==
    Record(RoundTrip.base_w, RoundTrip.base_h, RoundTrip.angle,
           RoundTrip.topmost, RoundTrip.locked, TRUE,
           FrameCenter(RoundTrip.geom)[1], FrameCenter(RoundTrip.geom)[2],
           RoundTrip.geom[1], RoundTrip.geom[2])

\* C28: save and restore is stable under repetition: for the record r that
\* to_state returns in a reachable state, to_state after apply_state(r) returns
\* the same cx, cy, w, h, angle, locked and topmost again.
C28_SaveRestoreFixedPoint ==
    /\ RoundTripRecord.cx = ToState.cx
    /\ RoundTripRecord.cy = ToState.cy
    /\ RoundTripRecord.w = ToState.w
    /\ RoundTripRecord.h = ToState.h
    /\ RoundTripRecord.angle = ToState.angle
    /\ RoundTripRecord.locked = ToState.locked
    /\ RoundTripRecord.topmost = ToState.topmost

\* a primary release ends a resize gesture whose press was the event before
\* it: no pointer move lies between the press on the handle and the release
ResizeEndsUnmoved == ResizeEnds /\ last = "press_left"

\* C29: a resize gesture with no pointer move between the press on the resize
\* handle and the release leaves the sticker unchanged: the press changes
\* none of base_w, base_h, the angle and the window geometry, and after the
\* release they equal their values before it.
C29_UnmovedResizeKeepsSticker ==
    [][/\ (last' = "press_left" /\ resizing') =>
            UNCHANGED <<base_w, base_h, rotation_angle, geom>>
       /\ ResizeEndsUnmoved =>
            UNCHANGED <<base_w, base_h, rotation_angle, geom>>]_vars

\* the handler that has just run was given a pointer event: a press, a move
\* or a release of a mouse button, the pointer entering or leaving the window,
\* or the rotate button's pressed signal
PointerEvent == last' \in {"press_left", "move", "release_left", "begin_rotate", "other"}

\* C30: while the sticker is locked no pointer event (press, move, release,
\* begin-rotate trigger) changes its window position, window side, base size,
\* pending size or angle, the events of a gesture that was in progress when
\* the sticker was locked included.
C30_LockedPointerInert ==
    [][(locked /\ PointerEvent) =>
          UNCHANGED <<geom, base_w, base_h, resizing_pending_size, rotation_angle>>]_vars
\* the primary button is released over a sticker that was locked in the
\* middle of a resize gesture, after the preview size had changed
C30_Witness ==
    /\ locked /\ last = "release_left"
    /\ resizing_pending_size # None
    /\ resizing_pending_size # <<base_w, base_h>>

====
